---- MODULE Spec2Model ----
(***************************************************************************)
(* Balance ledger of the candy-route application (src/app.py): the         *)
(* Customer and Payment tables and the request handlers that write them.   *)
(*                                                                         *)
(* A handler is an operator giving its response (HTTP status and message)  *)
(* in the current state, and an action applying its effect when that       *)
(* response is a success; a refused request changes nothing.               *)
(*                                                                         *)
(* Amounts and balances are the handlers' float values, modelled as exact  *)
(* integers (whole currency units); every value the model uses is exactly  *)
(* representable as a float, so the arithmetic agrees with the code's.     *)
(* A receipt number "RCP-<YYYYMMDD>-<NNNN>" is the pair (receipt_day,      *)
(* receipt_seq); a NULL receipt number is receipt_seq = 0.                 *)
(*                                                                         *)
(* Spec is the customer and ledger handlers with one request at a time;    *)
(* SpecLedger is the ledger operations alone on imported customers;        *)
(* SpecRoute is the route sequencer; SpecLifecycle is the customer         *)
(* lifecycle (leads, archive, delete). SpecConc, SpecConcPaid and          *)
(* SpecSequencer run requests concurrently, in the steps between which     *)
(* another request can act.                                                *)
(***************************************************************************)
EXTENDS Integers, FiniteSets, Sequences, TLC

\* ---------------------------------------------------------------- bounds
MaxCustomers == 2
MaxPayments == 2
MaxDay == 2
MaxRequests == 2
MaxStops == 3

CustIds == 1..MaxCustomers
PayIds == 1..MaxPayments
Days == 1..MaxDay
Requests == 1..MaxRequests
StopIds == 1..MaxStops

\* Form values a request can carry for a numeric field: a number, text that
\* float() rejects, or nothing.
Amounts == {-30, 0, 30, 200}
Balances == {-30, 100}
Num(v) == [kind |-> "num", val |-> v]
BadText == [kind |-> "bad", val |-> 0]
Missing == [kind |-> "missing", val |-> 0]
AmountInputs == {Num(v) : v \in Amounts} \cup {BadText, Missing}
BalanceInputs == {Num(v) : v \in Balances} \cup {BadText, Missing}
\* A payment_date form value: none (the handler takes today) or a string
\* strptime rejects.
DateInputs == {Missing, BadText}

VARIABLES
    customers,       \* Customer table: id -> [exists, balance, status]
    payments,        \* Payment table: set of rows
    nextCustomerId,  \* Customer.id autoincrement
    nextPaymentId,   \* Payment.id autoincrement
    today,           \* datetime.now().date()
    issued,          \* history: receipt numbers allocated so far, per day
    receipt_unique,  \* schema: payment.receipt_number carries a UNIQUE constraint
    reqs,            \* requests in flight: slot -> progress
    stops,           \* RouteStop table: set of rows
    nextStopId,      \* RouteStop.id autoincrement
    last_visit,      \* Customer.last_visit: id -> date, 0 for NULL
    name,            \* Customer.name: id -> rank of the name in sort order
    city             \* Customer.city: id -> city

vars == <<customers, payments, nextCustomerId, nextPaymentId, today, issued,
          receipt_unique, reqs, stops, nextStopId, last_visit, name, city>>
route == <<stops, nextStopId, last_visit, name, city>>
db == <<customers, payments, nextCustomerId, nextPaymentId>>

\* ---------------------------------------------------------------- tables
\* Customer.status: 'lead', 'active' or 'inactive' ("none" where there is no row)
Statuses == {"lead", "active", "inactive"}
NoCustomer == [exists |-> FALSE, balance |-> 0, status |-> "none"]
\* a Customer row created without a status: the column default 'active'
Customer(b) == [exists |-> TRUE, balance |-> b, status |-> "active"]
\* Customer(..., balance=0.0, status='lead')
Lead == [exists |-> TRUE, balance |-> 0, status |-> "lead"]

\* a variant of Payment that stores the balance left by the payment
Payment_BalanceAfter(id, cid, amount, rday, rseq, prev) ==
    [id |-> id, customer_id |-> cid, amount |-> amount,
     receipt_day |-> rday, receipt_seq |-> rseq,
     previous_balance |-> IF prev - amount > 0 THEN prev - amount ELSE 0]

\* The Payment columns the ledger reads or writes (payment_date, notes and
\* acknowledged are stored and never read back by it).
Payment(id, cid, amount, rday, rseq, prev) ==
    [id |-> id, customer_id |-> cid, amount |-> amount,
     receipt_day |-> rday, receipt_seq |-> rseq, previous_balance |-> prev]

\* Customer.query.get_or_404 / Payment.query.get_or_404 find a row
Exists(cid) == cid \in CustIds /\ customers[cid].exists
PaymentExists(pid) == \E p \in payments : p.id = pid
PaymentById(pid) == CHOOSE p \in payments : p.id = pid

\* a variant of Max that never takes its first argument
Max_Second(a, b) == b
Max(a, b) == IF a >= b THEN a ELSE b

\* a handler's response: HTTP status and message
Response(http, msg) == [http |-> http, msg |-> msg]

\* a request slot: op is the handler, pc its position, the other fields its
\* locals. Request is a record-payment request, DeleteRequest a
\* delete-payment request (pid, amount: the payment row as loaded;
\* previous_balance: customer.balance as loaded), AppendRequest an add-stop
\* request (sequence: max_seq + 1 as computed).
Idle ==
    [op |-> "none", pc |-> "idle", cid |-> 0, pid |-> 0, amount |-> 0,
     previous_balance |-> 0, receipt_day |-> 0, receipt_seq |-> 0,
     route_date |-> 0, sequence |-> 0, http |-> 0]
Request(pc, cid, amount, prev, day, seq, http) ==
    [Idle EXCEPT !.op = "record", !.pc = pc, !.cid = cid, !.amount = amount,
                 !.previous_balance = prev, !.receipt_day = day,
                 !.receipt_seq = seq, !.http = http]
DeleteRequest(pc, cid, pid, amount, prev, http) ==
    [Idle EXCEPT !.op = "delete", !.pc = pc, !.cid = cid, !.pid = pid,
                 !.amount = amount, !.previous_balance = prev, !.http = http]
AppendRequest(pc, cid, route_date, sequence, http) ==
    [Idle EXCEPT !.op = "append", !.pc = pc, !.cid = cid,
                 !.route_date = route_date, !.sequence = sequence, !.http = http]

\* init_db: db.create_all() creates the payment table with the UNIQUE
\* constraint of the model class; a payment table that predates the
\* receipt_number column gets it by ALTER TABLE ... ADD COLUMN, without one.
Schemas == BOOLEAN

Init ==
    /\ customers = [c \in CustIds |-> NoCustomer]
    /\ payments = {}
    /\ nextCustomerId = 1
    /\ nextPaymentId = 1
    /\ today = 1
    /\ issued = [d \in Days |-> 0]
    /\ receipt_unique \in Schemas
    /\ reqs = [r \in Requests |-> Idle]
    /\ stops = {}
    /\ nextStopId = 1
    /\ last_visit = [c \in CustIds |-> 0]
    /\ name = [c \in CustIds |-> 1]
    /\ city = [c \in CustIds |-> 1]

\* ------------------------------------------------------------- customers
\* POST /customers/add: a new customer with balance 0.0
customer_add ==
    /\ nextCustomerId <= MaxCustomers
    /\ customers' = [customers EXCEPT ![nextCustomerId] = Customer(0)]
    /\ nextCustomerId' = nextCustomerId + 1
    /\ UNCHANGED <<payments, nextPaymentId, today, issued, receipt_unique, reqs,
                   route>>

\* balance = float(row.get("balance", 0) or 0): the CSV value as it is
ImportedBalance(bal) == IF bal.kind = "missing" THEN 0 ELSE bal.val

\* POST /admin/import, one CSV row. clear_existing deletes and commits all
\* rows first; a row whose balance float() rejects aborts the import after that.
admin_import(clear, bal) ==
    LET cleared == IF clear THEN [c \in CustIds |-> NoCustomer] ELSE customers
    IN  /\ payments' = IF clear THEN {} ELSE payments
        /\ stops' = IF clear THEN {} ELSE stops
        /\ IF bal.kind = "bad"
           THEN /\ customers' = cleared
                /\ nextCustomerId' = nextCustomerId
           ELSE /\ nextCustomerId <= MaxCustomers
                /\ customers' = [cleared EXCEPT
                       ![nextCustomerId] = Customer(ImportedBalance(bal))]
                /\ nextCustomerId' = nextCustomerId + 1
        /\ last_visit' = IF clear THEN [c \in CustIds |-> 0] ELSE last_visit
        /\ UNCHANGED <<nextPaymentId, today, issued, receipt_unique, reqs,
                       nextStopId, name, city>>

\* if balance_value < 0: return 400
BalanceRejected(v) == v < 0

customer_update_response(cid, bal) ==
    IF ~Exists(cid) THEN Response(404, "")
    ELSE IF bal.kind = "missing" THEN Response(302, "")
    ELSE IF bal.kind = "bad" THEN Response(400, "Invalid balance value")
    ELSE IF BalanceRejected(bal.val) THEN Response(400, "Balance cannot be negative")
    ELSE Response(302, "")

\* POST /customers/<id>/update
customer_update(cid, bal) ==
    /\ customers' =
          IF customer_update_response(cid, bal).http = 302 /\ bal.kind = "num"
          THEN [customers EXCEPT ![cid].balance = bal.val]
          ELSE customers
    /\ UNCHANGED <<payments, nextCustomerId, nextPaymentId, today, issued, receipt_unique, reqs,
                   route>>

customer_delete_response(cid) ==
    IF ~Exists(cid) THEN Response(404, "") ELSE Response(302, "")

\* POST /customers/<id>/delete: the customer's stops and payments are deleted
\* first
customer_delete(cid) ==
    /\ IF customer_delete_response(cid).http = 302
       THEN /\ stops' = {s \in stops : s.customer_id # cid}
            /\ payments' = {p \in payments : p.customer_id # cid}
            /\ customers' = [customers EXCEPT ![cid] = NoCustomer]
            /\ last_visit' = [last_visit EXCEPT ![cid] = 0]
       ELSE UNCHANGED <<customers, payments, stops, last_visit>>
    /\ UNCHANGED <<nextCustomerId, nextPaymentId, today, issued, receipt_unique, reqs,
                   nextStopId, name, city>>

\* ------------------------------------------------------------- lifecycle
\* POST /leads/add: a new customer with balance 0.0 and status 'lead'
lead_add ==
    /\ nextCustomerId <= MaxCustomers
    /\ customers' = [customers EXCEPT ![nextCustomerId] = Lead]
    /\ nextCustomerId' = nextCustomerId + 1
    /\ UNCHANGED <<payments, nextPaymentId, today, issued, receipt_unique, reqs,
                   route>>

lead_convert_response(cid) ==
    IF ~Exists(cid) THEN Response(404, "")
    ELSE IF customers[cid].status # "lead" THEN Response(400, "Not a lead")
    ELSE Response(302, "")

\* POST /leads/<id>/convert
lead_convert(cid) ==
    /\ customers' =
          IF lead_convert_response(cid).http = 302
          THEN [customers EXCEPT ![cid].status = "active"]
          ELSE customers
    /\ UNCHANGED <<payments, nextCustomerId, nextPaymentId, today, issued,
                   receipt_unique, reqs, route>>

customer_archive_response(cid) ==
    IF ~Exists(cid) THEN Response(404, "") ELSE Response(302, "")

\* a variant of Archived that gives the status 'lead'
Archived_Lead(row) == [row EXCEPT !.status = "lead"]
\* customer.status = 'inactive'
Archived(row) == [row EXCEPT !.status = "inactive"]

\* POST /customers/<id>/archive
customer_archive(cid) ==
    /\ customers' =
          IF customer_archive_response(cid).http = 302
          THEN [customers EXCEPT ![cid] = Archived(@)]
          ELSE customers
    /\ UNCHANGED <<payments, nextCustomerId, nextPaymentId, today, issued,
                   receipt_unique, reqs, route>>

customer_reactivate_response(cid) ==
    IF ~Exists(cid) THEN Response(404, "") ELSE Response(302, "")

\* POST /customers/<id>/reactivate
customer_reactivate(cid) ==
    /\ customers' =
          IF customer_reactivate_response(cid).http = 302
          THEN [customers EXCEPT ![cid].status = "active"]
          ELSE customers
    /\ UNCHANGED <<payments, nextCustomerId, nextPaymentId, today, issued,
                   receipt_unique, reqs, route>>

\* the customer has a row in RouteStop or Payment
HasRows(cid) ==
    \/ \E s \in stops : s.customer_id = cid
    \/ \E p \in payments : p.customer_id = cid

\* db.session.delete(lead): the relationships Customer.stops and
\* Customer.payments (the backrefs of RouteStop.customer and Payment.customer)
\* carry no delete cascade, so the flush sets customer_id of the lead's rows to
\* NULL; the columns are NOT NULL, the UPDATE fails, and the error handler
\* rolls back and answers 500
lead_delete_response(cid) ==
    IF ~Exists(cid) THEN Response(404, "")
    ELSE IF customers[cid].status # "lead" THEN Response(400, "Not a lead")
    ELSE IF HasRows(cid) THEN Response(500, "")
    ELSE Response(302, "")

\* POST /leads/<id>/delete
lead_delete(cid) ==
    /\ IF lead_delete_response(cid).http = 302
       THEN /\ customers' = [customers EXCEPT ![cid] = NoCustomer]
            /\ last_visit' = [last_visit EXCEPT ![cid] = 0]
       ELSE UNCHANGED <<customers, last_visit>>
    /\ UNCHANGED <<payments, nextCustomerId, nextPaymentId, today, issued,
                   receipt_unique, reqs, stops, nextStopId, name, city>>

\* the foreign keys of RouteStop.customer_id and Payment.customer_id: PostgreSQL
\* enforces them, SQLite (the default database) does not
ForeignKeys == BOOLEAN

\* Customer.query.filter_by(status='lead').delete()
LeadsCleared(rows) ==
    [c \in CustIds |->
        IF rows[c].exists /\ rows[c].status = "lead" THEN NoCustomer ELSE rows[c]]

\* import_leads.clear_leads, confirmed with "yes": one DELETE statement for
\* all leads, no statement for their stops and payments. Where the foreign
\* keys are enforced the DELETE fails if a lead has a stop or a payment, and
\* nothing is deleted.
clear_leads(enforced) ==
    IF enforced /\ \E c \in CustIds : Exists(c) /\ customers[c].status = "lead" /\ HasRows(c)
    THEN UNCHANGED vars
    ELSE /\ customers' = LeadsCleared(customers)
         /\ last_visit' = [c \in CustIds |->
                IF Exists(c) /\ customers[c].status = "lead" THEN 0 ELSE last_visit[c]]
         /\ UNCHANGED <<payments, nextCustomerId, nextPaymentId, today, issued,
                        receipt_unique, reqs, stops, nextStopId, name, city>>

\* --------------------------------------------------------------- ledger
\* a variant of NewBalance without the floor at 0
NewBalance_Unclamped(balance, amount) == balance - amount
\* customer.balance = max(0, customer.balance - amount)
NewBalance(balance, amount) == Max(0, balance - amount)

\* a variant of RestoredBalance that adds the amount twice
RestoredBalance_Twice(balance, amount) == balance + 2 * amount
\* a variant of RestoredBalance that leaves the balance as it is
RestoredBalance_Kept(balance, amount) == balance
\* customer.balance += payment.amount
RestoredBalance(balance, amount) == balance + amount

\* a variant of AmountRejected that lets an amount of 0 through
AmountRejected_Negative(amount) == amount < 0
\* if amount <= 0: return 400
AmountRejected(amount) == amount <= 0

\* Payment.query.filter(receipt_number.like("RCP-<day>-%")).count()
ReceiptCount(rows, day) ==
    Cardinality({p \in rows : p.receipt_seq # 0 /\ p.receipt_day = day})

\* receipt_number = f"RCP-{today_str}-{today_count + 1:04d}"
ReceiptSeq(rows, day) == ReceiptCount(rows, day) + 1

\* receipt_number is declared unique: where the table carries the constraint,
\* the insert of a number a row already holds raises IntegrityError (NULLs
\* never collide)
ReceiptTaken(rows, day, seq) ==
    /\ receipt_unique
    /\ seq # 0
    /\ \E p \in rows : p.receipt_seq = seq /\ p.receipt_day = day

\* get_or_404 and the IntegrityError of the commit are raised inside the try
\* and caught by "except Exception": 500; a ValueError of float() or strptime
\* is answered 400.
record_payment_validated(cid, amt, date) ==
    IF amt.kind = "missing" THEN Response(400, "Missing required fields")
    ELSE IF ~Exists(cid) THEN Response(500, "Error recording payment")
    ELSE IF amt.kind = "bad" THEN Response(400, "Invalid amount value")
    ELSE IF AmountRejected(amt.val) THEN Response(400, "Amount must be positive")
    ELSE IF date.kind = "bad" THEN Response(400, "Invalid amount value")
    ELSE Response(302, "")

record_payment_response(cid, amt, date) ==
    IF record_payment_validated(cid, amt, date).http # 302
    THEN record_payment_validated(cid, amt, date)
    ELSE IF ReceiptTaken(payments, today, ReceiptSeq(payments, today))
         THEN Response(500, "Error recording payment")
    ELSE Response(302, "")

\* POST /balances/record-payment
record_payment(cid, amt, date) ==
    IF record_payment_response(cid, amt, date).http = 302
    THEN /\ nextPaymentId <= MaxPayments
         /\ payments' = payments \cup
                {Payment(nextPaymentId, cid, amt.val, today,
                         ReceiptSeq(payments, today), customers[cid].balance)}
         /\ customers' = [customers EXCEPT
                ![cid].balance = NewBalance(customers[cid].balance, amt.val)]
         /\ nextPaymentId' = nextPaymentId + 1
         /\ issued' = [issued EXCEPT ![today] = @ + 1]
         /\ UNCHANGED <<nextCustomerId, today, receipt_unique, reqs,
                        route>>
    ELSE UNCHANGED vars

\* amount = float(request.form.get("amount", 0)): no check of its sign
FormAmount(amt) == IF amt.kind = "missing" THEN 0 ELSE amt.val

\* a ValueError of float() or strptime is raised outside any try: 500
customer_add_payment_response(cid, amt, date) ==
    IF ~Exists(cid) THEN Response(404, "")
    ELSE IF amt.kind = "bad" \/ date.kind = "bad" THEN Response(500, "")
    ELSE Response(302, "Payment recorded")

\* POST /customers/<id>/add-payment: no receipt number
customer_add_payment(cid, amt, date) ==
    IF customer_add_payment_response(cid, amt, date).http = 302
    THEN /\ nextPaymentId <= MaxPayments
         /\ payments' = payments \cup
                {Payment(nextPaymentId, cid, FormAmount(amt), 0, 0,
                         customers[cid].balance)}
         /\ customers' = [customers EXCEPT
                ![cid].balance = NewBalance(customers[cid].balance, FormAmount(amt))]
         /\ nextPaymentId' = nextPaymentId + 1
         /\ UNCHANGED <<nextCustomerId, today, issued, receipt_unique, reqs,
                        route>>
    ELSE UNCHANGED vars

\* a variant of ForeignPayment that accepts every payment
ForeignPayment_Never(payment, cid) == FALSE
\* if payment.customer_id != customer_id: flash("Invalid payment", "error")
ForeignPayment(payment, cid) == payment.customer_id # cid

customer_delete_payment_response(cid, pid) ==
    IF ~Exists(cid) \/ ~PaymentExists(pid) THEN Response(404, "")
    ELSE IF ForeignPayment(PaymentById(pid), cid) THEN Response(302, "Invalid payment")
    ELSE Response(302, "Payment deleted")

\* POST /customers/<id>/delete-payment/<payment_id>
customer_delete_payment(cid, pid) ==
    IF customer_delete_payment_response(cid, pid).msg = "Payment deleted"
    THEN /\ customers' = [customers EXCEPT
                ![cid].balance = RestoredBalance(customers[cid].balance,
                                                 PaymentById(pid).amount)]
         /\ payments' = payments \ {PaymentById(pid)}
         /\ UNCHANGED <<nextCustomerId, nextPaymentId, today, issued, receipt_unique, reqs,
                        route>>
    ELSE UNCHANGED vars

\* midnight: datetime.now() moves to the next calendar date
NextDay ==
    /\ today < MaxDay
    /\ today' = today + 1
    /\ UNCHANGED <<db, issued, receipt_unique, reqs,
                   route>>

Next ==
    \/ customer_add
    \/ \E clear \in BOOLEAN, bal \in BalanceInputs : admin_import(clear, bal)
    \/ \E cid \in CustIds, bal \in BalanceInputs : customer_update(cid, bal)
    \/ \E cid \in CustIds : customer_delete(cid)
    \/ \E cid \in CustIds, amt \in AmountInputs, date \in DateInputs :
           record_payment(cid, amt, date)
    \/ \E cid \in CustIds, amt \in AmountInputs, date \in DateInputs :
           customer_add_payment(cid, amt, date)
    \/ \E cid \in CustIds, pid \in PayIds : customer_delete_payment(cid, pid)
    \/ NextDay

Spec == Init /\ [][Next]_vars

\* ------------------------------------------------- single-threaded ledger
\* the state after an import of MaxCustomers rows with balance 100
InitImported ==
    /\ customers = [c \in CustIds |-> Customer(100)]
    /\ payments = {}
    /\ nextCustomerId = MaxCustomers + 1
    /\ nextPaymentId = 1
    /\ today = 1
    /\ issued = [d \in Days |-> 0]
    /\ receipt_unique \in Schemas
    /\ reqs = [r \in Requests |-> Idle]
    /\ stops = {}
    /\ nextStopId = 1
    /\ last_visit = [c \in CustIds |-> 0]
    /\ name = [c \in CustIds |-> 1]
    /\ city = [c \in CustIds |-> 1]

\* the ledger operations alone: record payment, delete payment, customer delete
NextLedger ==
    \/ \E cid \in CustIds, amt \in AmountInputs, date \in DateInputs :
           record_payment(cid, amt, date)
    \/ \E cid \in CustIds, amt \in AmountInputs, date \in DateInputs :
           customer_add_payment(cid, amt, date)
    \/ \E cid \in CustIds, pid \in PayIds : customer_delete_payment(cid, pid)
    \/ \E cid \in CustIds : customer_delete(cid)
    \/ NextDay

SpecLedger == InitImported /\ [][NextLedger]_vars

\* ------------------------------------------- concurrent record-payment
\* record_payment in the steps at which another request can come between:
\* the reads of the customer row and of the receipt count, and the commit.

\* validation, customer = get_or_404(...), previous_balance = customer.balance
record_payment_load(r, cid, amt, date) ==
    /\ reqs[r].pc = "idle"
    /\ reqs' = [reqs EXCEPT ![r] =
          IF record_payment_validated(cid, amt, date).http # 302
          THEN Request("done", 0, 0, 0, 0, 0,
                       record_payment_validated(cid, amt, date).http)
          ELSE Request("loaded", cid, amt.val, customers[cid].balance, 0, 0, 0)]
    /\ UNCHANGED <<db, today, issued, receipt_unique, route>>

\* today_count = ...count(); receipt_number = f"RCP-{today_str}-{today_count + 1:04d}"
record_payment_count(r) ==
    /\ reqs[r].op = "record" /\ reqs[r].pc = "loaded"
    /\ reqs' = [reqs EXCEPT ![r].pc = "counted",
                            ![r].receipt_day = today,
                            ![r].receipt_seq = ReceiptSeq(payments, today)]
    /\ UNCHANGED <<db, today, issued, receipt_unique, route>>

\* a variant of record_payment_rollback that keeps the balance written
\* before the failed insert
record_payment_rollback_partial(r) ==
    /\ reqs' = [reqs EXCEPT ![r].pc = "done", ![r].http = 500]
    /\ customers' = [customers EXCEPT ![reqs[r].cid].balance =
           Max(0, reqs[r].previous_balance - reqs[r].amount)]
    /\ UNCHANGED <<payments, nextCustomerId, nextPaymentId, issued>>
\* the commit raises: the transaction's UPDATE and INSERT are both undone,
\* "except Exception" answers 500
record_payment_rollback(r) ==
    /\ reqs' = [reqs EXCEPT ![r].pc = "done", ![r].http = 500]
    /\ UNCHANGED <<db, issued>>

\* customer.balance = max(0, customer.balance - amount) on the row as loaded;
\* db.session.add(payment); db.session.commit(): one transaction.
record_payment_commit(r) ==
    /\ reqs[r].op = "record" /\ reqs[r].pc = "counted"
    /\ IF ReceiptTaken(payments, reqs[r].receipt_day, reqs[r].receipt_seq)
       THEN record_payment_rollback(r)
       ELSE /\ nextPaymentId <= MaxPayments
            /\ payments' = payments \cup
                   {Payment(nextPaymentId, reqs[r].cid, reqs[r].amount,
                            reqs[r].receipt_day, reqs[r].receipt_seq,
                            reqs[r].previous_balance)}
            /\ customers' = [customers EXCEPT ![reqs[r].cid].balance =
                   NewBalance(reqs[r].previous_balance, reqs[r].amount)]
            /\ nextPaymentId' = nextPaymentId + 1
            /\ issued' = [issued EXCEPT ![reqs[r].receipt_day] = @ + 1]
            /\ reqs' = [reqs EXCEPT ![r].pc = "done", ![r].http = 302]
            /\ UNCHANGED nextCustomerId
    /\ UNCHANGED <<today, receipt_unique, route>>

\* customer_delete_payment in two steps: the reads of the customer and payment
\* rows with the ownership check, and the commit.
customer_delete_payment_load(r, cid, pid) ==
    /\ reqs[r].pc = "idle"
    /\ reqs' = [reqs EXCEPT ![r] =
          IF customer_delete_payment_response(cid, pid).msg # "Payment deleted"
          THEN DeleteRequest("done", 0, 0, 0, 0,
                             customer_delete_payment_response(cid, pid).http)
          ELSE DeleteRequest("loaded", cid, pid, PaymentById(pid).amount,
                             customers[cid].balance, 0)]
    /\ UNCHANGED <<db, today, issued, receipt_unique, route>>

\* a variant of customer_delete_payment_commit that adds the amount to the
\* balance the row has at the commit
customer_delete_payment_commit_current(r) ==
    /\ reqs[r].op = "delete" /\ reqs[r].pc = "loaded"
    /\ customers' = [customers EXCEPT ![reqs[r].cid].balance =
           RestoredBalance(@, reqs[r].amount)]
    /\ payments' = {p \in payments : p.id # reqs[r].pid}
    /\ reqs' = [reqs EXCEPT ![r].pc = "done", ![r].http = 302]
    /\ UNCHANGED <<nextCustomerId, nextPaymentId, today, issued, receipt_unique, route>>
\* customer.balance += payment.amount on the row as loaded;
\* db.session.delete(payment); db.session.commit(). A DELETE that matches no
\* row (the payment is already gone) is not an error.
customer_delete_payment_commit(r) ==
    /\ reqs[r].op = "delete" /\ reqs[r].pc = "loaded"
    /\ customers' = [customers EXCEPT ![reqs[r].cid].balance =
           RestoredBalance(reqs[r].previous_balance, reqs[r].amount)]
    /\ payments' = {p \in payments : p.id # reqs[r].pid}
    /\ reqs' = [reqs EXCEPT ![r].pc = "done", ![r].http = 302]
    /\ UNCHANGED <<nextCustomerId, nextPaymentId, today, issued, receipt_unique, route>>


\* ------------------------------------------------------- route sequencer
Names == 1..2
Cities == 1..2

\* a route_date value of a request: a date, a string strptime rejects, or
\* (for a form field) nothing
RouteDateInputs == {Num(d) : d \in Days} \cup {BadText, Missing}
RouteDatePaths == {Num(d) : d \in Days} \cup {BadText}

RouteStop(id, cid, route_date, sequence, completed) ==
    [id |-> id, customer_id |-> cid, route_date |-> route_date,
     sequence |-> sequence, completed |-> completed]

\* RouteStop.query.get_or_404 finds a row
StopExists(sid) == \E s \in stops : s.id = sid
StopById(sid) == CHOOSE s \in stops : s.id = sid

\* RouteStop.query.filter_by(route_date=...)
StopsOn(rows, d) == {s \in rows : s.route_date = d}

\* db.session.query(db.func.max(RouteStop.sequence)).filter_by(...).scalar() or 0
MaxSequence(rows, d) ==
    IF StopsOn(rows, d) = {} THEN 0
    ELSE CHOOSE m \in {s.sequence : s \in StopsOn(rows, d)} :
            \A s \in StopsOn(rows, d) : s.sequence <= m

\* a variant of NextSequence that counts the stops of the date
NextSequence_Count(rows, d) == Cardinality(StopsOn(rows, d)) + 1
\* sequence=max_seq + 1
NextSequence(rows, d) == MaxSequence(rows, d) + 1

\* strptime and get_or_404 are called inside the try: their exceptions are
\* caught by "except Exception" and answered 500 with str(e)
add_stop_to_route_response(cid, date) ==
    IF date.kind = "missing" THEN Response(400, "Missing parameters")
    ELSE IF date.kind = "bad" THEN Response(500, "time data does not match format")
    ELSE IF ~Exists(cid) THEN Response(500, "404 Not Found")
    ELSE Response(200, "")

\* POST /planner/add-stop
add_stop_to_route(cid, date) ==
    IF add_stop_to_route_response(cid, date).http = 200
    THEN /\ nextStopId <= MaxStops
         /\ stops' = stops \cup
                {RouteStop(nextStopId, cid, date.val,
                           NextSequence(stops, date.val), FALSE)}
         /\ nextStopId' = nextStopId + 1
         /\ UNCHANGED <<db, today, issued, receipt_unique, reqs,
                        last_visit, name, city>>
    ELSE UNCHANGED vars

remove_stop_from_route_response(sid) ==
    IF ~StopExists(sid) THEN Response(404, "") ELSE Response(200, "")

\* a variant of RemainingStops that closes the gap in the sequence numbers
RemainingStops_Renumbered(rows, stop) ==
    {IF s.route_date = stop.route_date /\ s.sequence > stop.sequence
     THEN [s EXCEPT !.sequence = @ - 1] ELSE s : s \in rows \ {stop}}
\* db.session.delete(stop)
RemainingStops(rows, stop) == rows \ {stop}

\* POST /planner/stop/<id>/remove
remove_stop_from_route(sid) ==
    IF remove_stop_from_route_response(sid).http = 200
    THEN /\ stops' = RemainingStops(stops, StopById(sid))
         /\ UNCHANGED <<db, today, issued, receipt_unique, reqs,
                        nextStopId, last_visit, name, city>>
    ELSE UNCHANGED vars

clear_route_response(date) ==
    IF date.kind = "bad" THEN Response(500, "time data does not match format")
    ELSE Response(200, "")

\* a variant of ClearedStops that deletes the stops of every date
ClearedStops_All(rows, d) == {}
\* RouteStop.query.filter_by(route_date=date_obj).delete()
ClearedStops(rows, d) == rows \ StopsOn(rows, d)

\* POST /planner/route/<route_date>/clear
clear_route(date) ==
    IF clear_route_response(date).http = 200
    THEN /\ stops' = ClearedStops(stops, date.val)
         /\ UNCHANGED <<db, today, issued, receipt_unique, reqs,
                        nextStopId, last_visit, name, city>>
    ELSE UNCHANGED vars

\* the orders in which RouteStop.query.filter_by(...).all(), a query without
\* ORDER BY, can return the rows: stop id -> position
QueryOrders(rows) ==
    {pos \in [{s.id : s \in rows} -> 1..Cardinality(rows)] :
        \A i, j \in {s.id : s \in rows} : i # j => pos[i] # pos[j]}

\* len(city_groups[city])
CitySize(rows, c) == Cardinality({s \in rows : city[s.customer_id] = c})

\* the place of a city among the keys of city_groups, a dict filled in query
\* order
CityFirst(rows, pos, c) ==
    CHOOSE i \in {pos[s.id] : s \in {t \in rows : city[t.customer_id] = c}} :
        \A s \in rows : city[s.customer_id] = c => i <= pos[s.id]

\* a variant of Before that visits the cities with fewer stops first
Before_SmallestFirst(a, b, rows, pos) ==
    IF city[a.customer_id] # city[b.customer_id]
    THEN \/ CitySize(rows, city[a.customer_id]) < CitySize(rows, city[b.customer_id])
         \/ /\ CitySize(rows, city[a.customer_id]) = CitySize(rows, city[b.customer_id])
            /\ CityFirst(rows, pos, city[a.customer_id])
                  < CityFirst(rows, pos, city[b.customer_id])
    ELSE \/ name[a.customer_id] < name[b.customer_id]
         \/ /\ name[a.customer_id] = name[b.customer_id]
            /\ pos[a.id] < pos[b.id]
\* a comes before b in optimized_stops: cities by number of stops, largest
\* first, and customers by name within a city, both sorts being stable
Before(a, b, rows, pos) ==
    IF city[a.customer_id] # city[b.customer_id]
    THEN \/ CitySize(rows, city[a.customer_id]) > CitySize(rows, city[b.customer_id])
         \/ /\ CitySize(rows, city[a.customer_id]) = CitySize(rows, city[b.customer_id])
            /\ CityFirst(rows, pos, city[a.customer_id])
                  < CityFirst(rows, pos, city[b.customer_id])
    ELSE \/ name[a.customer_id] < name[b.customer_id]
         \/ /\ name[a.customer_id] = name[b.customer_id]
            /\ pos[a.id] < pos[b.id]

\* a variant of OptimizedSequence that numbers the stops from 0
OptimizedSequence_FromZero(s, rows, pos) ==
    Cardinality({t \in rows : Before(t, s, rows, pos)})
\* for idx, stop in enumerate(optimized_stops, start=1): stop.sequence = idx
OptimizedSequence(s, rows, pos) ==
    1 + Cardinality({t \in rows : Before(t, s, rows, pos)})

Optimized(rows, d, pos) ==
    {IF s.route_date = d
     THEN [s EXCEPT !.sequence = OptimizedSequence(s, StopsOn(rows, d), pos)]
     ELSE s : s \in rows}

\* a variant of NothingToOptimize that is true of the empty route only
NothingToOptimize_Empty(rows) == rows = {}
\* if len(stops) <= 1: the route is rendered as it is
NothingToOptimize(rows) == Cardinality(rows) <= 1

optimize_route_response(date) ==
    IF date.kind = "bad" THEN Response(500, "time data does not match format")
    ELSE Response(200, "")

\* POST /planner/route/<route_date>/optimize; pos is the order in which the
\* query returned the stops of the date, optimize_route_stops the RouteStop
\* table the request leaves
optimize_route_stops(date, pos) ==
    IF /\ optimize_route_response(date).http = 200
       /\ ~NothingToOptimize(StopsOn(stops, date.val))
    THEN Optimized(stops, date.val, pos)
    ELSE stops

optimize_route(date, pos) ==
    /\ stops' = optimize_route_stops(date, pos)
    /\ UNCHANGED <<db, today, issued, receipt_unique, reqs,
                   nextStopId, last_visit, name, city>>

complete_stop_response(sid) ==
    IF ~StopExists(sid) THEN Response(404, "") ELSE Response(200, "")

\* a variant of Visited that keeps the visit date the customer had
Visited_Kept(visits, cid, day) == visits
\* stop.customer.last_visit = datetime.now().date()
Visited(visits, cid, day) == [visits EXCEPT ![cid] = day]

\* POST /route/stop/<id>/complete
complete_stop(sid) ==
    IF complete_stop_response(sid).http = 200
    THEN /\ stops' = (stops \ {StopById(sid)}) \cup
                        {[StopById(sid) EXCEPT !.completed = TRUE]}
         /\ last_visit' = Visited(last_visit, StopById(sid).customer_id, today)
         /\ UNCHANGED <<db, today, issued, receipt_unique, reqs,
                        nextStopId, name, city>>
    ELSE UNCHANGED vars

uncomplete_stop_response(sid) ==
    IF ~StopExists(sid) THEN Response(404, "") ELSE Response(200, "")

\* POST /route/stop/<id>/uncomplete
uncomplete_stop(sid) ==
    IF uncomplete_stop_response(sid).http = 200
    THEN /\ stops' = (stops \ {StopById(sid)}) \cup
                        {[StopById(sid) EXCEPT !.completed = FALSE]}
         /\ UNCHANGED <<db, today, issued, receipt_unique, reqs,
                        nextStopId, last_visit, name, city>>
    ELSE UNCHANGED vars

\* the state after an import of MaxCustomers rows with balance 100, of any
\* names and cities (up to the naming of customers and cities: customer 1 has
\* the first name and the first city), and one recorded payment of 30 by
\* customer 1
InitRoute ==
    /\ customers = [c \in CustIds |-> Customer(IF c = 1 THEN 70 ELSE 100)]
    /\ payments = {Payment(1, 1, 30, 1, 1, 100)}
    /\ nextCustomerId = MaxCustomers + 1
    /\ nextPaymentId = 2
    /\ today = 1
    /\ issued = [d \in Days |-> IF d = 1 THEN 1 ELSE 0]
    /\ receipt_unique = TRUE
    /\ reqs = [r \in Requests |-> Idle]
    /\ stops = {}
    /\ nextStopId = 1
    /\ last_visit = [c \in CustIds |-> 0]
    /\ name \in {f \in [CustIds -> Names] : f[1] = 1}
    /\ city \in {f \in [CustIds -> Cities] : f[1] = 1}

\* the sequencer's operations, one request at a time
NextRoute ==
    \/ \E cid \in CustIds, date \in RouteDateInputs : add_stop_to_route(cid, date)
    \/ \E sid \in StopIds : remove_stop_from_route(sid)
    \/ \E date \in RouteDatePaths : clear_route(date)
    \/ \E date \in RouteDatePaths :
           \E pos \in QueryOrders(StopsOn(stops, date.val)) :
               optimize_route(date, pos)
    \/ \E sid \in StopIds : complete_stop(sid)
    \/ \E sid \in StopIds : uncomplete_stop(sid)
    \/ \E cid \in CustIds : customer_delete(cid)
    \/ NextDay

SpecRoute == InitRoute /\ [][NextRoute]_vars

\* ------------------------------------------------- concurrent add-stop
\* a variant of SequenceTaken for a table with a unique (route_date, sequence)
SequenceTaken_Unique(rows, d, seq) ==
    \E s \in rows : s.route_date = d /\ s.sequence = seq
\* RouteStop.sequence is a plain Integer column: no constraint rejects a
\* sequence number a stop of the date already holds
SequenceTaken(rows, d, seq) == FALSE

\* add_stop_to_route up to the query of the current max sequence
add_stop_to_route_read(r, cid, date) ==
    /\ reqs[r].pc = "idle"
    /\ reqs' = [reqs EXCEPT ![r] =
          IF add_stop_to_route_response(cid, date).http # 200
          THEN AppendRequest("done", 0, 0, 0,
                             add_stop_to_route_response(cid, date).http)
          ELSE AppendRequest("read", cid, date.val,
                             NextSequence(stops, date.val), 0)]
    /\ UNCHANGED <<db, today, issued, receipt_unique, route>>

\* db.session.add(new_stop); db.session.commit()
add_stop_to_route_commit(r) ==
    /\ reqs[r].op = "append" /\ reqs[r].pc = "read"
    /\ IF SequenceTaken(stops, reqs[r].route_date, reqs[r].sequence)
       THEN /\ reqs' = [reqs EXCEPT ![r].pc = "done", ![r].http = 500]
            /\ UNCHANGED <<stops, nextStopId>>
       ELSE /\ nextStopId <= MaxStops
            /\ stops' = stops \cup
                   {RouteStop(nextStopId, reqs[r].cid, reqs[r].route_date,
                              reqs[r].sequence, FALSE)}
            /\ nextStopId' = nextStopId + 1
            /\ reqs' = [reqs EXCEPT ![r].pc = "done", ![r].http = 200]
    /\ UNCHANGED <<db, today, issued, receipt_unique, last_visit, name, city>>

NextConc ==
    \/ \E r \in Requests, cid \in CustIds, amt \in AmountInputs, date \in DateInputs :
           record_payment_load(r, cid, amt, date)
    \/ \E r \in Requests : record_payment_count(r)
    \/ \E r \in Requests : record_payment_commit(r)
    \/ \E r \in Requests, cid \in CustIds, pid \in PayIds :
           customer_delete_payment_load(r, cid, pid)
    \/ \E r \in Requests : customer_delete_payment_commit(r)
    \/ \E r \in Requests, cid \in CustIds, date \in RouteDateInputs :
           add_stop_to_route_read(r, cid, date)
    \/ \E r \in Requests : add_stop_to_route_commit(r)
    \/ NextDay

SpecConc == InitImported /\ [][NextConc]_vars

\* the overlapping requests on customers that have a payment recorded
SpecConcPaid == InitRoute /\ [][NextConc]_vars

\* the sequencer with add-stop requests that can overlap: an add-stop runs
\* either in one piece or in its two steps, between which the other requests
\* act
NextSequencer ==
    \/ \E cid \in CustIds, date \in RouteDateInputs : add_stop_to_route(cid, date)
    \/ \E r \in Requests, cid \in CustIds, date \in RouteDateInputs :
           add_stop_to_route_read(r, cid, date)
    \/ \E r \in Requests : add_stop_to_route_commit(r)
    \/ \E sid \in StopIds : remove_stop_from_route(sid)
    \/ \E date \in RouteDatePaths :
           \E pos \in QueryOrders(StopsOn(stops, date.val)) :
               optimize_route(date, pos)

\* the imported customers of InitRoute, in two cities
InitSequencer == InitRoute /\ name[2] = 2 /\ city[2] = 2

SpecSequencer == InitSequencer /\ [][NextSequencer]_vars

\* the customer lifecycle: leads and customers are created, converted,
\* archived, reactivated, updated and deleted, and get payments and stops
LifecycleAmounts == {Num(30)}
NextLifecycle ==
    \/ customer_add
    \/ lead_add
    \/ \E cid \in CustIds : lead_convert(cid)
    \/ \E cid \in CustIds : customer_archive(cid)
    \/ \E cid \in CustIds : customer_reactivate(cid)
    \/ \E cid \in CustIds, bal \in BalanceInputs : customer_update(cid, bal)
    \/ \E cid \in CustIds : lead_delete(cid)
    \/ \E enforced \in ForeignKeys : clear_leads(enforced)
    \/ \E cid \in CustIds : customer_delete(cid)
    \/ \E cid \in CustIds, amt \in LifecycleAmounts : record_payment(cid, amt, Missing)
    \/ \E cid \in CustIds, d \in Days : add_stop_to_route(cid, Num(d))

SpecLifecycle == Init /\ [][NextLifecycle]_vars

\* ================================================================ claims
\* the rows a step inserts
Created == {p \in payments' : ~PaymentExists(p.id)}

\* C1: every customer's balance is >= 0 in every reachable state.
C1_BalanceNonNegative ==
    \A c \in CustIds : customers[c].exists => customers[c].balance >= 0

\* C2: after each successful payment-creating call (record_payment or
\* customer_add_payment) the customer's balance is max(0, balance_before - amount).
C2_BalanceAfterPayment ==
    [][\A p \in Created, amt \in AmountInputs, date \in DateInputs :
          LET cid == p.customer_id
              before == customers[cid].balance
              after == customers'[cid].balance
          IN  /\ (/\ record_payment_response(cid, amt, date).http = 302
                  /\ record_payment(cid, amt, date))
                 => after = IF before - amt.val > 0 THEN before - amt.val ELSE 0
              /\ (/\ customer_add_payment_response(cid, amt, date).http = 302
                  /\ customer_add_payment(cid, amt, date))
                 => after = IF before - FormAmount(amt) > 0
                            THEN before - FormAmount(amt) ELSE 0]_vars

\* both handlers have created a payment for one customer; one payment exceeded
\* the balance and left it at 0, one did not
C2_Witness ==
    \E p, q \in payments :
        /\ p.receipt_seq # 0 /\ q.receipt_seq = 0
        /\ p.customer_id = q.customer_id
        /\ p.amount > p.previous_balance /\ p.previous_balance > 0
        /\ q.amount < q.previous_balance /\ q.amount > 0
        /\ customers[p.customer_id].balance = 0

\* C3: a created payment stores the owning customer's balance of the moment
\* before it was applied, and no later step changes a stored previous_balance.
C3_PreviousBalanceSnapshot ==
    [][/\ \A p \in Created : p.previous_balance = customers[p.customer_id].balance
       /\ \A p \in payments, q \in payments' :
             p.id = q.id => q.previous_balance = p.previous_balance]_vars

\* a payment whose snapshot is no longer the balance it left, kept through a
\* later payment, a customer update and the deletion of that later payment
C3_Witness ==
    /\ nextPaymentId = 3
    /\ \E p \in payments :
          /\ payments = {p}
          /\ p.id = 1 /\ p.amount = 30 /\ p.previous_balance = 100
          /\ customers[p.customer_id].balance = 300

\* C4: /balances/record-payment for an existing customer with amount <= 0 is
\* answered 400 and changes neither a balance nor the payments (no step that
\* changes one of them is such a request).
C4_NonPositiveAmountRejected ==
    /\ [](\A cid \in CustIds, amt \in AmountInputs, date \in DateInputs :
            (Exists(cid) /\ amt.kind = "num" /\ amt.val <= 0)
            => record_payment_response(cid, amt, date).http = 400)
    /\ [][(customers' # customers \/ payments' # payments)
          => \A cid \in CustIds, amt \in AmountInputs, date \in DateInputs :
                ~(/\ Exists(cid) /\ amt.kind = "num" /\ amt.val <= 0
                  /\ record_payment(cid, amt, date))]_vars

\* a state in which such a request is refused: a customer with a balance and
\* a recorded payment, asked to record an amount of 0
C4_Witness ==
    \E cid \in CustIds :
        /\ Exists(cid) /\ customers[cid].balance > 0
        /\ \E p \in payments : p.customer_id = cid /\ p.receipt_seq # 0
        /\ record_payment_response(cid, Num(0), Missing)
              = Response(400, "Amount must be positive")

\* C5: every persisted payment has amount > 0.
C5_PaymentAmountPositive == \A p \in payments : p.amount > 0

\* C6: deleting a payment of the given customer removes exactly that row and
\* adds its amount to that customer's balance; nothing else changes.
C6_DeleteReversesAmount ==
    [][\A cid \in CustIds, pid \in PayIds :
          (/\ Exists(cid) /\ PaymentExists(pid)
           /\ PaymentById(pid).customer_id = cid
           /\ customer_delete_payment(cid, pid))
          => /\ payments' = payments \ {PaymentById(pid)}
             /\ customers'[cid].balance = customers[cid].balance + PaymentById(pid).amount
             /\ \A c \in CustIds \ {cid} : customers'[c] = customers[c]]_vars

\* a payment (id 2) was deleted and its amount added back, while another
\* payment and another customer with a balance exist
C6_Witness ==
    /\ nextPaymentId = 3
    /\ \E p \in payments :
          /\ payments = {p} /\ p.id = 1
          /\ customers[p.customer_id].balance > p.previous_balance
    /\ \A c \in CustIds : customers[c].exists /\ customers[c].balance > 0

\* C7: deleting a payment through another customer's URL is refused as an
\* invalid payment and changes neither a balance nor the payments (no step
\* that changes one of them is such a request).
C7_ForeignPaymentRefused ==
    /\ [](\A cid \in CustIds, pid \in PayIds :
            (/\ Exists(cid) /\ PaymentExists(pid)
             /\ PaymentById(pid).customer_id # cid)
            => customer_delete_payment_response(cid, pid)
                  = Response(302, "Invalid payment"))
    /\ [][(customers' # customers \/ payments' # payments)
          => \A cid \in CustIds, pid \in PayIds :
                ~(/\ Exists(cid) /\ PaymentExists(pid)
                  /\ PaymentById(pid).customer_id # cid
                  /\ customer_delete_payment(cid, pid))]_vars

\* a state in which such a request is refused: two customers, each with a
\* payment of its own
C7_Witness ==
    /\ \A c \in CustIds : Exists(c) /\ \E p \in payments : p.customer_id = c
    /\ \E cid \in CustIds, p \in payments :
          /\ p.customer_id # cid
          /\ customer_delete_payment_response(cid, p.id).msg = "Invalid payment"

\* C8: from balance 100, a payment of 30 gives 70 and stores 100; a payment of
\* 200 then gives 0 and stores 70; deleting that second payment gives 200.
C8_Scenario ==
    [][\A cid \in CustIds, date \in DateInputs :
        /\ (/\ Exists(cid) /\ customers[cid].balance = 100
            /\ record_payment_response(cid, Num(30), date).http = 302
            /\ record_payment(cid, Num(30), date))
           => /\ customers'[cid].balance = 70
              /\ \E p \in Created : p.customer_id = cid /\ p.previous_balance = 100
        /\ (/\ Exists(cid) /\ customers[cid].balance = 70
            /\ record_payment_response(cid, Num(200), date).http = 302
            /\ record_payment(cid, Num(200), date))
           => /\ customers'[cid].balance = 0
              /\ \E p \in Created : p.customer_id = cid /\ p.previous_balance = 70
        /\ \A p \in payments :
             (/\ Exists(cid) /\ customers[cid].balance = 0
              /\ p.customer_id = cid /\ p.amount = 200 /\ p.previous_balance = 70
              /\ customer_delete_payment(cid, p.id))
             => customers'[cid].balance = 200]_vars

\* the scenario's end: the payment of 30 that stored 100 is left, the second
\* payment is deleted, the balance is 200
C8_Witness ==
    /\ nextPaymentId = 3
    /\ \E p \in payments :
          /\ payments = {p}
          /\ p.id = 1 /\ p.amount = 30 /\ p.previous_balance = 100 /\ p.receipt_seq = 1
          /\ customers[p.customer_id].balance = 200
          /\ issued[p.receipt_day] = 2

\* C9: the k-th receipt recorded on a calendar date has daily suffix k.
C9_ReceiptSuffixInOrder ==
    [][\A p \in Created :
          p.receipt_seq # 0 => p.receipt_seq = issued[p.receipt_day] + 1]_vars

\* C10: no two persisted payments share a non-null receipt number, and of two
\* record-payment requests that computed the same receipt number at most one
\* is committed, the other being refused.
C10_ReceiptNumberUnique ==
    /\ \A p, q \in payments :
          (/\ p.receipt_seq # 0
           /\ p.receipt_day = q.receipt_day /\ p.receipt_seq = q.receipt_seq)
          => p.id = q.id
    /\ \A r1, r2 \in Requests :
          (/\ r1 # r2
           /\ reqs[r1].pc = "done" /\ reqs[r2].pc = "done"
           /\ reqs[r1].receipt_seq # 0
           /\ reqs[r1].receipt_day = reqs[r2].receipt_day
           /\ reqs[r1].receipt_seq = reqs[r2].receipt_seq)
          => ~(reqs[r1].http = 302 /\ reqs[r2].http = 302)

\* C11: record payment and delete payment are all-or-nothing. A commit of a
\* record-payment request either inserts its one Payment row and writes the
\* balance that row accounts for, or (the receipt number being taken) answers
\* an error and leaves payments and balances as they were; a refused request
\* changes nothing; a commit of a delete-payment request leaves the payment
\* gone and the balance raised by its amount; no other step writes either.
C11_AllOrNothing ==
    [][/\ \A r \in Requests :
            /\ (reqs[r].op = "record" /\ reqs[r].pc = "counted" /\ reqs'[r].pc = "done")
               => \/ /\ reqs'[r].http = 302
                     /\ \E p \in Created :
                           /\ payments' = payments \cup {p}
                           /\ p.customer_id = reqs[r].cid /\ p.amount = reqs[r].amount
                           /\ customers'[p.customer_id].balance =
                                 IF p.previous_balance - p.amount > 0
                                 THEN p.previous_balance - p.amount ELSE 0
                  \/ /\ reqs'[r].http # 302
                     /\ payments' = payments /\ customers' = customers
            /\ (reqs[r].pc = "idle" /\ reqs'[r].pc = "done")
               => (payments' = payments /\ customers' = customers)
            /\ (reqs[r].op = "delete" /\ reqs[r].pc = "loaded" /\ reqs'[r].pc = "done")
               => /\ ~\E p \in payments' : p.id = reqs[r].pid
                  /\ payments' \subseteq payments
                  /\ customers'[reqs[r].cid].balance =
                        reqs[r].previous_balance + reqs[r].amount
       /\ (payments' # payments \/ customers' # customers)
          => \E r \in Requests :
                reqs[r].pc \in {"counted", "loaded"} /\ reqs'[r].pc = "done"]_vars

\* two requests computed the same receipt number: one is committed, the other
\* was answered 500, and the one Payment row and the balance agree
C11_Witness ==
    \E r1, r2 \in Requests, p \in payments :
        /\ reqs[r1].pc = "done" /\ reqs[r1].http = 302
        /\ reqs[r2].pc = "done" /\ reqs[r2].http = 500 /\ reqs[r2].receipt_seq # 0
        /\ reqs[r2].cid = reqs[r1].cid /\ reqs[r2].amount # reqs[r1].amount
        /\ payments = {p} /\ p.customer_id = reqs[r1].cid
        /\ customers[p.customer_id].balance = p.previous_balance - p.amount

\* a request that committed a write to customer c's balance
Committed(r, c) ==
    /\ reqs[r].pc = "done" /\ reqs[r].http = 302 /\ reqs[r].cid = c
    /\ reqs[r].op = "record" \/ (reqs[r].op = "delete" /\ reqs[r].pid # 0)

\* the balance a request's operation makes of balance b when it runs alone
Effect(b, q) ==
    IF q.op = "record"
    THEN IF b - q.amount > 0 THEN b - q.amount ELSE 0
    ELSE b + q.amount

\* C12: when two requests have written the balance of one customer (imported
\* with balance 100) and no other has, the balance is what one of the two
\* serial orders of their operations gives.
C12_NoLostUpdate ==
    \A c \in CustIds, r1, r2 \in Requests :
        (/\ r1 # r2 /\ Committed(r1, c) /\ Committed(r2, c)
         /\ \A r3 \in Requests \ {r1, r2} : reqs[r3].cid # c)
        => customers[c].balance \in
              {Effect(Effect(100, reqs[r1]), reqs[r2]),
               Effect(Effect(100, reqs[r2]), reqs[r1])}

\* C13: two record-payment requests for two distinct customers that both
\* passed validation both succeed, each leaving its customer's balance as if
\* it had run alone; two add-stop requests for two distinct route dates both
\* succeed, each leaving its date with its one stop at sequence 1.
C13_IndependentEntities ==
    \A r1, r2 \in Requests :
        (r1 # r2 /\ reqs[r1].pc = "done" /\ reqs[r2].pc = "done")
        => /\ (/\ reqs[r1].op = "record" /\ reqs[r2].op = "record"
               /\ reqs[r1].cid # 0 /\ reqs[r2].cid # 0
               /\ reqs[r1].cid # reqs[r2].cid)
              => /\ reqs[r1].http = 302 /\ reqs[r2].http = 302
                 /\ customers[reqs[r1].cid].balance = Effect(100, reqs[r1])
                 /\ customers[reqs[r2].cid].balance = Effect(100, reqs[r2])
           /\ (/\ reqs[r1].op = "append" /\ reqs[r2].op = "append"
               /\ reqs[r1].route_date # 0 /\ reqs[r2].route_date # 0
               /\ reqs[r1].route_date # reqs[r2].route_date)
              => /\ reqs[r1].http = 200 /\ reqs[r2].http = 200
                 /\ \A r \in {r1, r2} :
                       \E s \in stops :
                          /\ StopsOn(stops, reqs[r].route_date) = {s}
                          /\ s.sequence = 1 /\ s.customer_id = reqs[r].cid

\* C15: two add-stop requests for one route date that computed the same
\* sequence number both succeed and leave two stops of that date with that
\* sequence number.
C15_DuplicateSequence ==
    \A r1, r2 \in Requests :
        (/\ r1 # r2
         /\ reqs[r1].op = "append" /\ reqs[r1].pc = "done"
         /\ reqs[r2].op = "append" /\ reqs[r2].pc = "done"
         /\ reqs[r1].route_date # 0
         /\ reqs[r1].route_date = reqs[r2].route_date
         /\ reqs[r1].sequence = reqs[r2].sequence)
        => /\ reqs[r1].http = 200 /\ reqs[r2].http = 200
           /\ \E s1, s2 \in stops :
                 /\ s1.id # s2.id
                 /\ s1.route_date = reqs[r1].route_date
                 /\ s2.route_date = reqs[r1].route_date
                 /\ s1.sequence = reqs[r1].sequence
                 /\ s2.sequence = reqs[r1].sequence
                 /\ s1.customer_id = reqs[r1].cid /\ s2.customer_id = reqs[r2].cid

\* both requests read max_seq before either committed, and both are done
C15_Witness ==
    \E r1, r2 \in Requests :
        /\ r1 # r2
        /\ reqs[r1].op = "append" /\ reqs[r1].pc = "done"
        /\ reqs[r2].op = "append" /\ reqs[r2].pc = "done"
        /\ reqs[r1].cid # reqs[r2].cid
        /\ reqs[r1].route_date = reqs[r2].route_date
        /\ reqs[r1].sequence = 1 /\ reqs[r2].sequence = 1
        /\ Cardinality(StopsOn(stops, reqs[r1].route_date)) = 2

\* the stops a step inserts
CreatedStops == {s \in stops' : ~StopExists(s.id)}

\* C14: with one request at a time, a successful add-stop creates exactly one
\* stop, not completed, for the given customer and date, whose sequence is
\* 1 if the date had no stop and otherwise the largest sequence of the date
\* plus 1, hence greater than every sequence already on the date.
C14_AppendAfterMax ==
    [][/\ \A cid \in CustIds, date \in RouteDateInputs :
            (/\ add_stop_to_route_response(cid, date).http = 200
             /\ add_stop_to_route(cid, date))
            => \E s \in CreatedStops :
                  /\ stops' = stops \cup {s}
                  /\ s.customer_id = cid /\ s.route_date = date.val
       /\ \A s \in CreatedStops :
            /\ s.completed = FALSE
            /\ \A t \in StopsOn(stops, s.route_date) : s.sequence > t.sequence
            /\ StopsOn(stops, s.route_date) = {} => s.sequence = 1
            /\ StopsOn(stops, s.route_date) # {}
               => \E t \in StopsOn(stops, s.route_date) : s.sequence = t.sequence + 1]_vars

\* the third stop was appended to a date after the first of its two stops
\* was removed
C14_Witness ==
    \E s, t \in stops :
        /\ s.id = 3 /\ s.sequence = 3 /\ t.id = 2 /\ t.sequence = 2
        /\ s.route_date = t.route_date
        /\ StopsOn(stops, s.route_date) = {s, t}

\* C16: add-stop and record-payment for a customer id that does not exist are
\* answered 404 (and create nothing).
C16_MissingCustomerNotFound ==
    \A cid \in CustIds, d \in Days :
        ~Exists(cid)
        => /\ add_stop_to_route_response(cid, Num(d)).http = 404
           /\ record_payment_response(cid, Num(30), Missing).http = 404

\* C17: add-stop, clear-route and optimize-route with a route date that is
\* not a valid date are answered 400.
C17_BadDateInvalidInput ==
    /\ \A cid \in CustIds :
          Exists(cid) => add_stop_to_route_response(cid, BadText).http = 400
    /\ clear_route_response(BadText).http = 400
    /\ optimize_route_response(BadText).http = 400

\* C18: removing a stop deletes that row and changes no other stop.
C18_RemoveExactlyOne ==
    [][\A sid \in StopIds :
          (StopExists(sid) /\ remove_stop_from_route(sid))
          => /\ ~\E s \in stops' : s.id = sid
             /\ \A s \in stops : s.id # sid => s \in stops'
             /\ stops' \subseteq stops]_vars

\* the second of three stops of a date was removed: sequences 1 and 3 remain
C18_Witness ==
    \E s, t \in stops :
        /\ s.id = 1 /\ s.sequence = 1 /\ t.id = 3 /\ t.sequence = 3
        /\ StopsOn(stops, s.route_date) = {s, t}

\* C19: clearing the route of date d leaves no stop of date d and leaves the
\* stops of every other date, the customers and the payments as they were.
C19_ClearOnlyThatDate ==
    [][\A d \in Days :
          clear_route(Num(d))
          => /\ StopsOn(stops', d) = {}
             /\ \A e \in Days \ {d} : StopsOn(stops', e) = StopsOn(stops, e)
             /\ customers' = customers /\ last_visit' = last_visit
             /\ payments' = payments]_vars

\* two stops were created on one date and one on another; the first date was
\* cleared, the other stop, the customers and the payment are there
C19_Witness ==
    /\ nextStopId = 4
    /\ \E s \in stops : stops = {s} /\ s.id = 3 /\ s.sequence = 1 /\ s.completed
    /\ \A c \in CustIds : Exists(c)
    /\ payments # {}

\* C20: completing a stop sets completed and the owning customer's last_visit
\* to the current date; uncompleting it clears completed and leaves every
\* last_visit as it was.
C20_CompleteSetsLastVisit ==
    [][\A sid \in StopIds :
          /\ (StopExists(sid) /\ complete_stop(sid))
             => /\ \E s \in stops' : s.id = sid /\ s.completed
                /\ last_visit'[StopById(sid).customer_id] = today
          /\ (StopExists(sid) /\ uncomplete_stop(sid))
             => /\ \E s \in stops' : s.id = sid /\ ~s.completed
                /\ last_visit' = last_visit]_vars

\* a stop completed on day 1 and uncompleted on day 2: the customer's
\* last_visit is still day 1
C20_Witness ==
    /\ today = 2 /\ nextStopId = 2
    /\ \E s \in stops :
          /\ stops = {s} /\ ~s.completed
          /\ last_visit[s.customer_id] = 1

\* C21: optimize-route is idempotent: on a date with two or more stops,
\* optimizing the optimized route assigns every stop the sequence it has, in
\* whatever orders the two queries return the rows, ties in city size and in
\* customer name included.
C21_OptimizeIdempotent ==
    \A d \in Days :
        Cardinality(StopsOn(stops, d)) > 1
        => \A pos1, pos2 \in QueryOrders(StopsOn(stops, d)) :
              Optimized(Optimized(stops, d, pos1), d, pos2)
                 = Optimized(stops, d, pos1)

\* C22: after optimize-route on a date with two or more stops, the stops of
\* the date read in ascending sequence order have the stops of one city next
\* to each other, a city with more stops before a city with fewer, and within
\* a city the customer names in non-decreasing order.
C22_GroupedByCity ==
    [][\A d \in Days :
          (/\ stops' # stops /\ nextStopId' = nextStopId
           /\ Cardinality(StopsOn(stops, d)) > 1
           /\ \E pos \in QueryOrders(StopsOn(stops, d)) :
                 optimize_route(Num(d), pos))
          => \A s, t \in StopsOn(stops', d) :
                /\ s # t => s.sequence # t.sequence
                /\ (s.sequence < t.sequence
                    /\ city[s.customer_id] = city[t.customer_id])
                   => /\ name[s.customer_id] <= name[t.customer_id]
                      /\ \A u \in StopsOn(stops', d) :
                            (s.sequence < u.sequence /\ u.sequence < t.sequence)
                            => city[u.customer_id] = city[s.customer_id]
                /\ CitySize(StopsOn(stops', d), city[s.customer_id])
                      > CitySize(StopsOn(stops', d), city[t.customer_id])
                   => s.sequence < t.sequence]_vars

\* a date got a stop of a customer of one city and then two stops of a
\* customer of another city; after optimize-route the two come first
C22_Witness ==
    /\ city[1] # city[2]
    /\ \E s, t, u \in stops :
          /\ s.id = 1 /\ t.id = 2 /\ u.id = 3
          /\ s.customer_id = 2 /\ t.customer_id = 1 /\ u.customer_id = 1
          /\ s.route_date = t.route_date /\ t.route_date = u.route_date
          /\ s.sequence = 3 /\ {t.sequence, u.sequence} = {1, 2}

\* C23: after optimize-route on a date with N >= 2 stops, the sequences of the
\* date's stops are exactly 1..N, each held by one stop, whatever duplicates
\* or gaps there were before; every stop is still there with its customer,
\* date and completed flag, and the stops of the other dates are as they were.
C23_SequencesOneToN ==
    [][\A d \in Days :
          (/\ stops' # stops /\ nextStopId' = nextStopId
           /\ Cardinality(StopsOn(stops, d)) > 1
           /\ \E pos \in QueryOrders(StopsOn(stops, d)) :
                 optimize_route(Num(d), pos))
          => /\ {s.sequence : s \in StopsOn(stops', d)}
                   = 1..Cardinality(StopsOn(stops, d))
             /\ \A s, t \in StopsOn(stops', d) : s # t => s.sequence # t.sequence
             /\ {[s EXCEPT !.sequence = 0] : s \in stops'}
                   = {[s EXCEPT !.sequence = 0] : s \in stops}
             /\ \A s, t \in stops' : s.id = t.id => s = t
             /\ \A e \in Days \ {d} : StopsOn(stops', e) = StopsOn(stops, e)]_vars

\* two overlapping add-stop requests both took sequence 1 on one date; after
\* optimize-route the two stops hold sequences 1 and 2
C23_Witness ==
    /\ \A r \in Requests :
          /\ reqs[r].op = "append" /\ reqs[r].pc = "done" /\ reqs[r].http = 200
          /\ reqs[r].sequence = 1 /\ reqs[r].route_date = 1
    /\ Cardinality(stops) = 2
    /\ {s.sequence : s \in StopsOn(stops, 1)} = {1, 2}

\* C24: optimize-route on a date with no stop or one stop changes nothing: a
\* single stop keeps the sequence it has, also when that is not 1.
C24_NothingToOptimize ==
    \A d \in Days :
        Cardinality(StopsOn(stops, d)) <= 1
        => \A pos \in QueryOrders(StopsOn(stops, d)) :
              optimize_route_stops(Num(d), pos) = stops

\* a date is left with one stop of sequence 2, its first stop removed, and
\* the other date has no stop
C24_Witness ==
    \E s \in stops :
        /\ stops = {s} /\ s.sequence = 2
        /\ \A d \in Days : Cardinality(StopsOn(stops, d)) <= 1

\* C25: in every reachable state every RouteStop and every Payment references
\* a Customer that exists: whatever deletes a customer (customer delete, lead
\* delete, the bulk clear of leads) deletes its stops and payments too.
C25_NoOrphanRows ==
    /\ \A s \in stops : Exists(s.customer_id)
    /\ \A p \in payments : Exists(p.customer_id)

\* C26: the balance of a customer that exists changes only in a step of the
\* ledger's two operations, one that records a payment of the customer or
\* deletes one; every other operation leaves it as it is.
C26_BalanceOwnedByLedger ==
    [][\A c \in CustIds :
          (/\ customers[c].exists /\ customers'[c].exists
           /\ customers'[c].balance # customers[c].balance)
          => \/ \E p \in Created : p.customer_id = c
             \/ \E p \in payments : p.customer_id = c /\ p \notin payments']_vars

C28_RecordAlwaysSucceeds ==
    \A cid \in CustIds, a \in {v \in Amounts : v > 0} :
        Exists(cid) => record_payment_response(cid, Num(a), Missing).http = 302

\* C29: when two overlapping delete-payment requests for the same payment have
\* both committed (and no other request is on that customer), the payment's
\* amount has been added to the customer's balance once: the balance is the
\* balance before them plus the amount, not plus twice the amount.
C29_DoubleDeleteAddsOnce ==
    \A r1, r2 \in Requests :
        (/\ r1 # r2
         /\ reqs[r1].op = "delete" /\ reqs[r1].pc = "done" /\ reqs[r1].pid # 0
         /\ reqs[r2].op = "delete" /\ reqs[r2].pc = "done"
         /\ reqs[r2].pid = reqs[r1].pid
         /\ \A r3 \in Requests \ {r1, r2} : reqs[r3].cid # reqs[r1].cid)
        => /\ customers[reqs[r1].cid].balance
                 = reqs[r1].previous_balance + reqs[r1].amount
           /\ customers[reqs[r1].cid].balance
                 # reqs[r1].previous_balance + 2 * reqs[r1].amount
           /\ reqs[r2].previous_balance = reqs[r1].previous_balance

\* both requests loaded the payment of 30 of the customer with balance 70 and
\* both committed: the payment is gone and the balance is 100
C29_Witness ==
    /\ \A r \in Requests :
          /\ reqs[r].op = "delete" /\ reqs[r].pc = "done" /\ reqs[r].http = 302
          /\ reqs[r].pid = 1 /\ reqs[r].previous_balance = 70
    /\ payments = {}
    /\ customers[1].balance = 100

\* C30: a customer's status is always lead, active or inactive; a customer
\* that is not a lead is never made a lead again (by archive, reactivate,
\* convert, update or anything else); lead-convert of a customer that is not
\* a lead is refused with 400 and leaves the status as it is.
C30_StatusLifecycle ==
    /\ [](\A c \in CustIds :
            Exists(c)
            => /\ customers[c].status \in Statuses
               /\ customers[c].status # "lead"
                  => lead_convert_response(c) = Response(400, "Not a lead"))
    /\ [][\A c \in CustIds :
            (Exists(c) /\ customers[c].status # "lead")
            => /\ customers'[c].exists => customers'[c].status # "lead"
               /\ lead_convert(c) => customers'[c].status = customers[c].status]_vars

\* a customer was archived and its conversion is refused, while the other
\* customer is a lead
C30_Witness ==
    \E c, e \in CustIds :
        /\ Exists(c) /\ customers[c].status = "inactive"
        /\ lead_convert_response(c).http = 400
        /\ Exists(e) /\ customers[e].status = "lead"
====
